---- MODULE Spec2Model ----
(***************************************************************************)
(* Event-driven backtest engine of quant-python/backtester.py:             *)
(* EventDrivenBacktester.run, _simulate_trades, _build_equity_curve and    *)
(* _compute_metrics, with the signal ordering of strategies.py.            *)
(*                                                                         *)
(* Prices are integers in units of 1/Scale of a price tick, so that the    *)
(* slippage factors (1 +/- slippage_bps/10000) are exact.  Timestamps are  *)
(* integers in units of 1/TicksPerMinute of a minute.                      *)
(***************************************************************************)
EXTENDS Integers, Sequences, FiniteSets

\* ------------------------------------------------------------------ bounds
MaxBars == 2
MaxSignals == 2
TicksPerMinute == 2
MaxTrades == 40

\* ------------------------------------------------------- program constants
BpsDenominator == 10000      \* slippage = slippage_bps / 10_000.0
DefaultSlippageBps == 5      \* slippage_bps: float = 5.0
DefaultCommission == 0       \* commission_per_trade: float = 0.0
RiskFloorInverse == 1000000  \* 1 / 1e-6, the floor of the risk denominator

\* Price unit: 1/Scale of a tick, the grid on which DefaultSlippageBps of one
\* tick is exactly one unit.
Scale == BpsDenominator \div DefaultSlippageBps

\* Timestamps the bars may carry, and the timestamps the signals may carry
\* (1: at or before the first bar, 2: between two bars, 5: after every bar).
Times == {1, 4}
SignalTimes == {1, 2, 5}

BUY == "BUY"
SELL == "SELL"

\* The shapes of a bar, in ticks: against a stop/target pair {1, 3} they
\* breach both levels, one of them, or none.
BarShapes ==
  { [low |-> 1, high |-> 3, close |-> 2],
    [low |-> 1, high |-> 2, close |-> 1],
    [low |-> 2, high |-> 3, close |-> 3],
    [low |-> 2, high |-> 2, close |-> 2] }

\* The levels of a signal, in ticks.
SignalKinds ==
  { [side |-> BUY, entry |-> 2, stop |-> 1, target |-> 3, strategy |-> "TPB_VWAP"],
    [side |-> SELL, entry |-> 2, stop |-> 3, target |-> 1, strategy |-> "VRB"] }

SlippageChoices == {0, DefaultSlippageBps}

\* initial_equity, in ticks (the default 100000 is scaled down so that the
\* drawdown ratios stay within TLC's 32-bit integers).
EquityChoices == {10}

None == [none |-> TRUE]

\* required = {"open", "high", "low", "close", "volume"} of
\* compute_indicator_frame; ema200 stands for the indicator columns.
RequiredColumns == {"open", "high", "low", "close", "volume"}
AllColumns == RequiredColumns \cup {"ema200"}

SeqsUpTo(S, n) == UNION { [1..k -> S] : k \in 0..n }

\* ------------------------------------------------------------ input data
\* MarketBar rows of the market_data frame (prices in ticks).
MarketBar(t, sh) ==
  [timestamp |-> t, low |-> sh.low, high |-> sh.high, close |-> sh.close]

MarketFrames ==
  { [i \in DOMAIN q |-> MarketBar(q[i][1], q[i][2])] :
      q \in SeqsUpTo(Times \X BarShapes, MaxBars) }

\* StrategySignal; id is the object's identity: its position in the list the
\* strategies produced.
StrategySignal(i, t, k) ==
  [id |-> i, timestamp |-> t, side |-> k.side, entry |-> k.entry,
   stop |-> k.stop, target |-> k.target, strategy |-> k.strategy]

SignalLists ==
  { [i \in DOMAIN q |-> StrategySignal(i, q[i][1], q[i][2])] :
      q \in SeqsUpTo(SignalTimes \X SignalKinds, MaxSignals) }

VARIABLES
  market_data,     \* run's market_data argument, in the caller's order
  strategy_out,    \* the signals the strategies produce, in production order
  slippage_bps,    \* self.slippage_bps
  initial_equity,  \* self.initial_equity, in price units
  pc,              \* position of run: start, loop, simulated, curve, done
  df,              \* the sorted feature frame
  signals,         \* the sorted signal list
  bar_idx,         \* number of bars the loop has processed
  signal_idx,      \* the cursor into signals
  triggered_signals, \* the batch pulled on the last processed bar
  open_position,   \* None or the open position
  trades,          \* the ledger
  equity_curve,    \* the equity curve
  metrics,         \* the BacktestMetrics
  entry_bar,       \* history: index of the bar the open position entered on
  entries,         \* history: <<signal id, bar index>> of every entry
  pulled,          \* history: <<signal id, bar index>> of every pull
  trace,           \* history: per trade its signal id, entry bar, exit bar
  columns,         \* the columns of the market_data frame
  strategy_reads,  \* the columns the strategies index without a default
  raised,          \* the exception run ended with, or "none"
  horizon,         \* pipeline.config.label.horizon
  previous         \* history: the call and the report of the run before

vars == <<market_data, strategy_out, slippage_bps, initial_equity,
          pc, df, signals, bar_idx, signal_idx, triggered_signals,
          open_position, trades, equity_curve, metrics, entry_bar, entries,
          pulled, trace, columns, strategy_reads, raised, horizon, previous>>

\* What a run is called with: the arguments and the instance's fields.
call == <<market_data, strategy_out, slippage_bps, initial_equity, columns,
          strategy_reads, horizon, previous>>

\* ---------------------------------------------------------------- helpers
Max(a, b) == IF a >= b THEN a ELSE b
Min(a, b) == IF a <= b THEN a ELSE b
Abs(a) == IF a >= 0 THEN a ELSE -a

\* Python's round() on the non-negative rational n/d: ties go to the even
\* integer.
PyRound(n, d) ==
  LET q == n \div d
      r == n % d
  IN  IF 2 * r < d THEN q
      ELSE IF 2 * r > d THEN q + 1
      ELSE IF q % 2 = 0 THEN q ELSE q + 1

\* slippage = self.slippage_bps / 10_000.0, in price units per tick.
SlipUnits(bps) == (bps * Scale) \div BpsDenominator

\* sorted(signals, key=lambda s: s.timestamp) and list.sort(key=...): a
\* stable sort, an element goes after every element not later than it.
RECURSIVE InsertByTimestamp(_, _)
InsertByTimestamp(s, x) ==
  IF s = <<>> THEN <<x>>
  ELSE IF Head(s).timestamp <= x.timestamp
       THEN <<Head(s)>> \o InsertByTimestamp(Tail(s), x)
       ELSE <<x>> \o s

RECURSIVE StableSortByTimestamp(_)
StableSortByTimestamp(s) ==
  IF s = <<>> THEN <<>>
  ELSE InsertByTimestamp(StableSortByTimestamp(SubSeq(s, 1, Len(s) - 1)), s[Len(s)])

\* generate_all_signals: the strategies' signals, concatenated, then sorted.
GenerateAllSignals(out) == StableSortByTimestamp(out)

\* Variant: a sort that is not stable, signals of equal timestamp come out
\* in reverse order.
RECURSIVE InsertBeforeEqual(_, _)
InsertBeforeEqual(s, x) ==
  IF s = <<>> THEN <<x>>
  ELSE IF Head(s).timestamp < x.timestamp
       THEN <<Head(s)>> \o InsertBeforeEqual(Tail(s), x)
       ELSE <<x>> \o s

RECURSIVE SortSignalsUnstable(_)
SortSignalsUnstable(sigs) ==
  IF sigs = <<>> THEN <<>>
  ELSE InsertBeforeEqual(SortSignalsUnstable(SubSeq(sigs, 1, Len(sigs) - 1)), sigs[Len(sigs)])

\* _simulate_trades, line 99: signals = sorted(signals, key=timestamp).
SortSignals(sigs) == StableSortByTimestamp(sigs)

IndexPermutations(n) ==
  { p \in [1..n -> 1..n] : \A i, j \in 1..n : i # j => p[i] # p[j] }

\* Variant: the frame is simulated in the order it was given in.
SortValuesAsGiven(frame) == {frame}

\* features.sort_values("timestamp").reset_index(drop=True): the default
\* quicksort is not stable, so rows of equal timestamp may come out in any
\* order.
SortValues(frame) ==
  { [i \in 1..Len(frame) |-> frame[p[i]]] :
      p \in { q \in IndexPermutations(Len(frame)) :
                \A i, j \in 1..Len(frame) :
                  i < j => frame[q[i]].timestamp <= frame[q[j]].timestamp } }

\* Variant: the loop pulls at most one signal per bar and leaves the rest
\* of the due signals queued for the bars after it.
AdvanceCursorOneSignal(sigs, idx, timestamp) ==
  IF idx < Len(sigs) /\ sigs[idx + 1].timestamp <= timestamp THEN idx + 1 ELSE idx

\* Variant: the loop pulls only the signals strictly earlier than the bar.
RECURSIVE AdvanceCursorStrict(_, _, _)
AdvanceCursorStrict(sigs, idx, timestamp) ==
  IF idx < Len(sigs) /\ sigs[idx + 1].timestamp < timestamp
  THEN AdvanceCursorStrict(sigs, idx + 1, timestamp)
  ELSE idx

\* The while loop of lines 110-112: the cursor after pulling every signal
\* whose timestamp is <= the bar's.
RECURSIVE AdvanceCursor(_, _, _)
AdvanceCursor(sigs, idx, timestamp) ==
  IF idx < Len(sigs) /\ sigs[idx + 1].timestamp <= timestamp
  THEN AdvanceCursor(sigs, idx + 1, timestamp)
  ELSE idx

\* Variant: the slippage is applied in the trader's favour.
EntryPriceFavourable(signal, bps) ==
  IF signal.side = BUY
  THEN signal.entry * (Scale - SlipUnits(bps))
  ELSE signal.entry * (Scale + SlipUnits(bps))

\* Lines 116-120: the slippage-adjusted entry price, in price units.
EntryPrice(signal, bps) ==
  IF signal.side = BUY
  THEN signal.entry * (Scale + SlipUnits(bps))
  ELSE signal.entry * (Scale - SlipUnits(bps))

\* Lines 114-126: the position after the entry step of a bar.
EnterPosition(pos, batch, timestamp, bps) ==
  IF pos = None /\ batch # <<>>
  THEN [signal |-> batch[1],
        entry_price |-> EntryPrice(batch[1], bps),
        entry_time |-> timestamp]
  ELSE pos

\* Variant: the target is checked before the stop.
ExitCheckTargetFirst(signal, row, bps, isLast) ==
  LET su == SlipUnits(bps)
      hit ==
        IF signal.side = BUY
        THEN IF row.high >= signal.target
             THEN [reason |-> "target", price |-> signal.target * (Scale - su)]
             ELSE IF row.low <= signal.stop
                  THEN [reason |-> "stop", price |-> signal.stop * (Scale - su)]
                  ELSE None
        ELSE IF row.low <= signal.target
             THEN [reason |-> "target", price |-> signal.target * (Scale + su)]
             ELSE IF row.high >= signal.stop
                  THEN [reason |-> "stop", price |-> signal.stop * (Scale + su)]
                  ELSE None
  IN  IF hit = None /\ isLast
      THEN [reason |-> "expiry",
            price |-> row.close * (IF signal.side = BUY THEN Scale - su ELSE Scale + su)]
      ELSE hit

\* Variant: no forced exit on the last bar.
ExitCheckNoExpiry(signal, row, bps, isLast) ==
  LET su == SlipUnits(bps)
  IN  IF signal.side = BUY
      THEN IF row.low <= signal.stop
           THEN [reason |-> "stop", price |-> signal.stop * (Scale - su)]
           ELSE IF row.high >= signal.target
                THEN [reason |-> "target", price |-> signal.target * (Scale - su)]
                ELSE None
      ELSE IF row.high >= signal.stop
           THEN [reason |-> "stop", price |-> signal.stop * (Scale + su)]
           ELSE IF row.low <= signal.target
                THEN [reason |-> "target", price |-> signal.target * (Scale + su)]
                ELSE None

\* Variant: a level is breached only when the bar goes strictly through it.
ExitCheckStrict(signal, row, bps, isLast) ==
  LET su == SlipUnits(bps)
      hit ==
        IF signal.side = BUY
        THEN IF row.low < signal.stop
             THEN [reason |-> "stop", price |-> signal.stop * (Scale - su)]
             ELSE IF row.high > signal.target
                  THEN [reason |-> "target", price |-> signal.target * (Scale - su)]
                  ELSE None
        ELSE IF row.high > signal.stop
             THEN [reason |-> "stop", price |-> signal.stop * (Scale + su)]
             ELSE IF row.low < signal.target
                  THEN [reason |-> "target", price |-> signal.target * (Scale + su)]
                  ELSE None
  IN  IF hit = None /\ isLast
      THEN [reason |-> "expiry",
            price |-> row.close * (IF signal.side = BUY THEN Scale - su ELSE Scale + su)]
      ELSE hit

\* Lines 141-161: the exit of an open position on a bar, or None.
ExitCheck(signal, row, bps, isLast) ==
  LET su == SlipUnits(bps)
      hit ==
        IF signal.side = BUY
        THEN IF row.low <= signal.stop
             THEN [reason |-> "stop", price |-> signal.stop * (Scale - su)]
             ELSE IF row.high >= signal.target
                  THEN [reason |-> "target", price |-> signal.target * (Scale - su)]
                  ELSE None
        ELSE IF row.high >= signal.stop
             THEN [reason |-> "stop", price |-> signal.stop * (Scale + su)]
             ELSE IF row.low <= signal.target
                  THEN [reason |-> "target", price |-> signal.target * (Scale + su)]
                  ELSE None
  IN  IF hit = None /\ isLast
      THEN [reason |-> "expiry",
            price |-> row.close * (IF signal.side = BUY THEN Scale - su ELSE Scale + su)]
      ELSE hit

\* Lines 138-139: high = row.get("high", row["close"]) and the same for low.
RowLevels(row, cols) ==
  [timestamp |-> row.timestamp,
   close |-> row.close,
   high |-> IF "high" \in cols THEN row.high ELSE row.close,
   low |-> IF "low" \in cols THEN row.low ELSE row.close]

\* Variant: a position is not checked for an exit on the bar it entered on.
ExitAfterEntryBar(pos, entered, row, bps, isLast) ==
  IF pos = None \/ entered THEN None
  ELSE ExitCheck(pos.signal, row, bps, isLast)

\* Lines 128-164: no exit without a position, else the exit check, on the
\* entry bar as on any other.
ExitOnBar(pos, entered, row, bps, isLast) ==
  IF pos = None THEN None ELSE ExitCheck(pos.signal, row, bps, isLast)

\* Variant: the new trade goes to the front of the ledger.
PrependTrade(ledger, trade) == <<trade>> \o ledger

\* Line 179: trades.append(TradeResult(...)).
AppendTrade(ledger, trade) == Append(ledger, trade)

\* Variant: the position is not cleared after its trade is appended.
PositionKeptAfterExit(pos) == pos

\* Line 196: open_position = None after the trade is appended.
PositionAfterExit(pos) == None

\* Rationals n/d in lowest terms with d > 0.
RECURSIVE GCD(_, _)
GCD(a, b) == IF b = 0 THEN a ELSE GCD(b, a % b)

Rat(n, d) ==
  LET g == GCD(Abs(n), Abs(d))
      s == IF d < 0 THEN -1 ELSE 1
  IN  [kind |-> "rat", n |-> (s * n) \div g, d |-> (s * d) \div g]

Zero == Rat(0, 1)
RatLess(a, b) == a.n * b.d < b.n * a.d
RatLeq(a, b) == a.n * b.d <= b.n * a.d
RatAdd(a, b) == Rat(a.n * b.d + b.n * a.d, a.d * b.d)

\* Variant: the holding minutes are truncated, not rounded.
BarsHeldTruncated(entry_time, timestamp) ==
  Max((IF timestamp > entry_time THEN timestamp - entry_time ELSE 0)
        \div TicksPerMinute, 1)

\* Lines 172-177: bars_held = max(int(round(float(holding_minutes))), 1).
BarsHeld(entry_time, timestamp) ==
  LET holding == IF timestamp > entry_time THEN timestamp - entry_time ELSE 0
  IN  Max(PyRound(holding, TicksPerMinute), 1)

\* Variant: bars_held without its floor of 1.
MakeTradeNoFloor(pos, timestamp, exit, comm) ==
  LET signal == pos.signal
      pnl == (IF signal.side = BUY
              THEN exit.price - pos.entry_price
              ELSE pos.entry_price - exit.price) - comm
      risk == Abs(pos.entry_price - signal.stop * Scale)
      holding == IF timestamp > pos.entry_time THEN timestamp - pos.entry_time ELSE 0
  IN  [entry_time |-> pos.entry_time,
       exit_time |-> timestamp,
       entry_price |-> pos.entry_price,
       exit_price |-> exit.price,
       side |-> signal.side,
       stop_price |-> signal.stop * Scale,
       target_price |-> signal.target * Scale,
       pnl |-> pnl,
       r_multiple |-> IF risk = 0
                      THEN Rat(pnl * (RiskFloorInverse \div Scale), 1)
                      ELSE Rat(pnl, risk),
       bars_held |-> PyRound(holding, TicksPerMinute),
       exit_reason |-> exit.reason,
       strategy |-> signal.strategy]

\* Lines 166-177 and the TradeResult of lines 179-194.
MakeTrade(pos, timestamp, exit, comm) ==
  LET signal == pos.signal
      pnl == (IF signal.side = BUY
              THEN exit.price - pos.entry_price
              ELSE pos.entry_price - exit.price) - comm
      risk == Abs(pos.entry_price - signal.stop * Scale)
  IN  [entry_time |-> pos.entry_time,
       exit_time |-> timestamp,
       entry_price |-> pos.entry_price,
       exit_price |-> exit.price,
       side |-> signal.side,
       stop_price |-> signal.stop * Scale,
       target_price |-> signal.target * Scale,
       pnl |-> pnl,
       r_multiple |-> IF risk = 0
                      THEN Rat(pnl * (RiskFloorInverse \div Scale), 1)
                      ELSE Rat(pnl, risk),
       bars_held |-> BarsHeld(pos.entry_time, timestamp),
       exit_reason |-> exit.reason,
       strategy |-> signal.strategy]

\* ----------------------------------------------------------- equity curve
\* Variant: the equity is not carried from one trade to the next.
BuildEquityCurveNoCarry(equity, trs) ==
  [i \in 1..Len(trs) |->
     [timestamp |-> trs[i].exit_time, equity |-> equity + trs[i].pnl]]

\* _build_equity_curve: one (exit_time, running equity) row per trade.
RECURSIVE BuildEquityCurve(_, _)
BuildEquityCurve(equity, trs) ==
  IF trs = <<>> THEN <<>>
  ELSE <<[timestamp |-> Head(trs).exit_time, equity |-> equity + Head(trs).pnl]>>
       \o BuildEquityCurve(equity + Head(trs).pnl, Tail(trs))

\* ---------------------------------------------------------------- metrics
\* Values a float can take that are no rational of the model: +/-inf, nan,
\* and a finite value the model does not compute (a power or a square root).
PosInf == [kind |-> "inf", n |-> 1, d |-> 0]
NegInf == [kind |-> "inf", n |-> -1, d |-> 0]
NaN == [kind |-> "nan", n |-> 0, d |-> 0]
Finite == [kind |-> "finite", n |-> 0, d |-> 1]

IsFinite(v) == v.kind \in {"rat", "finite"}

RECURSIVE SumPnl(_)
SumPnl(trs) == IF trs = <<>> THEN 0 ELSE Head(trs).pnl + SumPnl(Tail(trs))

RECURSIVE SumBarsHeld(_)
SumBarsHeld(trs) == IF trs = <<>> THEN 0 ELSE Head(trs).bars_held + SumBarsHeld(Tail(trs))

RECURSIVE RatSum(_)
RatSum(rs) == IF rs = <<>> THEN Zero ELSE RatAdd(Head(rs), RatSum(Tail(rs)))

Mean(rs) == LET t == RatSum(rs) IN Rat(t.n, t.d * Len(rs))

\* np.sort on the R-multiples.
RECURSIVE InsertRat(_, _)
InsertRat(s, x) ==
  IF s = <<>> THEN <<x>>
  ELSE IF RatLeq(Head(s), x) THEN <<Head(s)>> \o InsertRat(Tail(s), x)
       ELSE <<x>> \o s

RECURSIVE NpSort(_)
NpSort(rs) ==
  IF rs = <<>> THEN <<>>
  ELSE InsertRat(NpSort(SubSeq(rs, 1, Len(rs) - 1)), rs[Len(rs)])

\* Variant: the tail size is rounded instead of truncated.
CvarCutoffRounded(n) == Max(PyRound(n, 20), 1)

\* Line 250: cutoff = int(max(len(sorted_returns) * 0.05, 1)); int()
\* truncates, and n * 0.05 truncates to n div 20.
CvarCutoff(n) == Max(n \div 20, 1)

\* Lines 249-251.
Cvar95(trs) ==
  LET sorted_returns == NpSort([i \in 1..Len(trs) |-> trs[i].r_multiple])
      cutoff == CvarCutoff(Len(sorted_returns))
  IN  Mean(SubSeq(sorted_returns, 1, cutoff))

\* Lines 218-222.  The timestamps of a ledger span less than a day here, so
\* years is the 1e-6 floor when days <= 0; the power overflows a double when
\* final/initial exceeds exp(709.78e-6) = 1.00071.
Cagr(trs, curve, initial) ==
  LET final_equity == curve[Len(curve)].equity
      days == (trs[Len(trs)].exit_time - trs[1].entry_time) \div (TicksPerMinute * 1440)
  IN  IF final_equity <= 0 THEN Rat(-1, 1)
      ELSE IF final_equity = initial THEN Zero
      ELSE IF days <= 0 /\ final_equity - initial > (initial * 71) \div 100000
           THEN PosInf
           ELSE Finite

\* Lines 224-226: a mean over a positive denominator times a square root.
Sharpe(trs) == IF SumPnl(trs) = 0 THEN Zero ELSE Finite

\* np.maximum.accumulate over the curve.
RECURSIVE RunningPeak(_, _)
RunningPeak(curve, i) ==
  IF i = 1 THEN curve[1].equity ELSE Max(RunningPeak(curve, i - 1), curve[i].equity)

\* Line 229: (equity - peak) / peak, as numpy divides.
Drawdown(curve, i) ==
  LET peak == RunningPeak(curve, i)
      e == curve[i].equity
  IN  IF peak # 0 THEN Rat(e - peak, peak)
      ELSE IF e = peak THEN NaN ELSE NegInf

\* Line 230: drawdowns.min(); a nan makes the minimum nan.
MaxDrawdown(curve) ==
  LET dd == [i \in 1..Len(curve) |-> Drawdown(curve, i)]
  IN  IF \E i \in DOMAIN dd : dd[i].kind = "nan" THEN NaN
      ELSE IF \E i \in DOMAIN dd : dd[i].kind = "inf" THEN NegInf
      ELSE CHOOSE v \in {dd[i] : i \in DOMAIN dd} :
             \A i \in DOMAIN dd : RatLeq(v, dd[i])

\* Line 231.
Mar(cagr, max_dd) ==
  IF max_dd.kind = "inf" THEN (IF IsFinite(cagr) THEN Zero ELSE NaN)
  ELSE IF max_dd.kind = "rat" /\ max_dd.n < 0
       THEN IF cagr.kind = "rat" THEN Rat(cagr.n * max_dd.d, cagr.d * Abs(max_dd.n))
            ELSE cagr
       ELSE NaN

\* Lines 234-239.
Payoff(trs) ==
  LET W == {i \in DOMAIN trs : trs[i].pnl > 0}
      L == {i \in DOMAIN trs : ~(trs[i].pnl > 0)}
      sw == SumPnl(SelectSeq(trs, LAMBDA t : t.pnl > 0))
      sl == SumPnl(SelectSeq(trs, LAMBDA t : ~(t.pnl > 0)))
  IN  IF W # {} /\ L # {}
      THEN IF sl = 0 THEN PosInf
           ELSE Rat(sw * Cardinality(L), Cardinality(W) * Abs(sl))
      ELSE IF W # {} THEN Rat(sw, Cardinality(W))
      ELSE Zero

\* Variant: the time in market is divided by the elapsed minutes alone.
ExposureOverElapsed(trs) ==
  LET time_in_market == SumBarsHeld(trs)
      elapsed == trs[Len(trs)].exit_time - trs[1].entry_time
  IN  IF elapsed # 0 THEN Rat(time_in_market * TicksPerMinute, elapsed) ELSE Zero

\* Lines 242-247: elapsed minutes are ticks / TicksPerMinute.
Exposure(trs) ==
  LET time_in_market == SumBarsHeld(trs)
      elapsed == trs[Len(trs)].exit_time - trs[1].entry_time
      total == Max(elapsed, time_in_market * TicksPerMinute)
  IN  IF total # 0 THEN Rat(time_in_market * TicksPerMinute, total) ELSE Zero

Coerce(v) == IF IsFinite(v) THEN v ELSE Zero

\* Line 212: the metrics of an empty ledger.
ZeroMetrics ==
  [cagr |-> Zero, sharpe |-> Zero, mar |-> Zero, max_drawdown |-> Zero,
   win_rate |-> Zero, payoff |-> Zero, expectancy |-> Zero,
   exposure |-> Zero, cvar_95 |-> Zero]

\* Lines 214-263: the metrics of a non-empty ledger.
LedgerMetrics(trs, curve, initial) ==
  LET cagr == Cagr(trs, curve, initial)
      max_dd == MaxDrawdown(curve)
  IN  [cagr |-> cagr,
       sharpe |-> Sharpe(trs),
       mar |-> Coerce(Mar(cagr, max_dd)),
       max_drawdown |-> max_dd,
       win_rate |-> Rat(Cardinality({i \in DOMAIN trs : trs[i].pnl > 0}), Len(trs)),
       payoff |-> Coerce(Payoff(trs)),
       expectancy |-> Rat(SumPnl(trs), Len(trs)),
       exposure |-> Exposure(trs),
       cvar_95 |-> Cvar95(trs)]

\* Variant: no guard for the empty ledger, the means of no trades are nan.
ComputeMetricsUnguarded(trs, curve, initial) ==
  IF trs = <<>>
  THEN [cagr |-> NaN, sharpe |-> Zero, mar |-> Zero, max_drawdown |-> NaN,
        win_rate |-> NaN, payoff |-> Zero, expectancy |-> NaN,
        exposure |-> Zero, cvar_95 |-> NaN]
  ELSE LedgerMetrics(trs, curve, initial)

\* _compute_metrics: the BacktestMetrics of a ledger and its curve.
ComputeMetricsOf(trs, curve, initial) ==
  IF trs = <<>> THEN ZeroMetrics ELSE LedgerMetrics(trs, curve, initial)

\* ------------------------------------------------------------ the backtest
\* The locals of a run and the history kept of it, before the run starts.
Fresh ==
  /\ pc = "start"
  /\ df = <<>>
  /\ signals = <<>>
  /\ bar_idx = 0
  /\ signal_idx = 0
  /\ triggered_signals = <<>>
  /\ open_position = None
  /\ trades = <<>>
  /\ equity_curve = <<>>
  /\ metrics = None
  /\ entry_bar = 0
  /\ entries = <<>>
  /\ pulled = <<>>
  /\ trace = <<>>
  /\ raised = "none"

Init ==
  /\ market_data \in MarketFrames
  /\ strategy_out \in SignalLists
  /\ slippage_bps \in SlippageChoices
  /\ initial_equity \in {e * Scale : e \in EquityChoices}
  /\ columns = AllColumns
  /\ strategy_reads = {"close"}
  /\ horizon = 0
  /\ previous = None
  /\ Fresh

\* Variant: a repeated sort of the same frame may order its ties anew.
SortedFramesAnyOrder(frame, before) == SortValues(frame)

\* sort_values is a function of the frame: a frame a run before has sorted
\* sorts the same way again.
SortedFrames(frame, before) ==
  IF before # None /\ before.market_data = frame
  THEN {before.df}
  ELSE SortValues(frame)

\* run, lines 78-87, and _simulate_trades up to the loop, lines 94-103.
\* Without an ema200 column make_features runs and compute_indicator_frame
\* raises ValueError when a required column is missing; a strategy that
\* indexes a missing column raises KeyError.
Run ==
  /\ pc = "start"
  /\ IF "ema200" \notin columns /\ ~(RequiredColumns \subseteq columns)
     THEN /\ pc' = "error"
          /\ raised' = "ValueError"
          /\ UNCHANGED <<df, signals>>
     ELSE \E features \in SortedFrames(market_data, previous) :
            /\ df' = features
            /\ IF features # <<>> /\ ~(strategy_reads \subseteq columns)
               THEN /\ pc' = "error"
                    /\ raised' = "KeyError"
                    /\ UNCHANGED signals
               ELSE LET sigs == GenerateAllSignals(strategy_out)
                    IN  /\ raised' = "none"
                        /\ IF sigs = <<>> \/ features = <<>>
                           THEN /\ pc' = "simulated"
                                /\ signals' = sigs
                           ELSE /\ pc' = "loop"
                                /\ signals' = SortSignals(sigs)
  /\ bar_idx' = 0
  /\ signal_idx' = 0
  /\ open_position' = None
  /\ trades' = <<>>
  /\ UNCHANGED <<call, triggered_signals, equity_curve, metrics, entry_bar,
                 entries, pulled, trace>>

\* One iteration of the loop of lines 105-196; the iteration of the last bar
\* ends the loop and _simulate_trades returns.  With a position open and no
\* close column, row["close"] of line 138 raises KeyError.
SimulateBar ==
  /\ pc = "loop"
  /\ bar_idx < Len(df)
  /\ LET k == bar_idx + 1
         row == RowLevels(df[k], columns)
         timestamp == row.timestamp
         cursor == AdvanceCursor(signals, signal_idx, timestamp)
         batch == SubSeq(signals, signal_idx + 1, cursor)
         pos == EnterPosition(open_position, batch, timestamp, slippage_bps)
         entered == open_position = None /\ pos # None
         ebar == IF entered THEN k ELSE entry_bar
         exit == ExitOnBar(pos, entered, row, slippage_bps, k = Len(df))
     IN  /\ signal_idx' = cursor
         /\ triggered_signals' = batch
         /\ pulled' = pulled \o [i \in 1..Len(batch) |-> <<batch[i].id, k>>]
         /\ entries' = IF entered THEN Append(entries, <<pos.signal.id, k>>) ELSE entries
         /\ IF pos # None /\ "close" \notin columns
            THEN /\ pc' = "error"
                 /\ raised' = "KeyError"
                 /\ open_position' = pos
                 /\ entry_bar' = ebar
                 /\ UNCHANGED <<trades, trace>>
            ELSE /\ IF pos = None \/ exit = None
                    THEN /\ open_position' = pos
                         /\ UNCHANGED <<trades, trace>>
                    ELSE /\ trades' = AppendTrade(trades, MakeTrade(pos, timestamp, exit,
                                                                DefaultCommission * Scale))
                         /\ trace' = Append(trace, [sig |-> pos.signal.id,
                                                    entry_bar |-> ebar, exit_bar |-> k])
                         /\ open_position' = PositionAfterExit(pos)
                 /\ entry_bar' = IF open_position' = None THEN 0 ELSE ebar
                 /\ pc' = IF k = Len(df) THEN "simulated" ELSE "loop"
                 /\ UNCHANGED raised
         /\ bar_idx' = k
  /\ UNCHANGED <<call, df, signals, equity_curve, metrics>>

\* run, line 88.
EquityCurveStep ==
  /\ pc = "simulated"
  /\ equity_curve' = BuildEquityCurve(initial_equity, trades)
  /\ pc' = "curve"
  /\ UNCHANGED <<call, df, signals, bar_idx, signal_idx, triggered_signals,
                 open_position, trades, metrics, entry_bar, entries, pulled,
                 trace, raised>>

\* run, lines 89-90.
MetricsStep ==
  /\ pc = "curve"
  /\ metrics' = ComputeMetricsOf(trades, equity_curve, initial_equity)
  /\ pc' = "done"
  /\ UNCHANGED <<call, df, signals, bar_idx, signal_idx, triggered_signals,
                 open_position, trades, equity_curve, entry_bar, entries,
                 pulled, trace, raised>>

Next == Run \/ SimulateBar \/ EquityCurveStep \/ MetricsStep

Spec == Init /\ [][Next]_vars

\* ------------------------------------------------- the five-bar scenario
\* Five one-minute bars and one BUY signal on the first bar with entry 100,
\* stop 98 and target 104, no slippage: the first two bars breach neither
\* level, the third has low 97 and high 105, the last two are free.
ScenarioSignal ==
  [side |-> BUY, entry |-> 100, stop |-> 98, target |-> 104, strategy |-> "TPB_VWAP"]

QuietBars == [low : {99, 100}, high : {101, 103}, close : {100}]
WideBars == [low : {97}, high : {105}, close : {98, 100, 104}]
FreeBars ==
  { [low |-> 97, high |-> 105, close |-> 100],
    [low |-> 99, high |-> 103, close |-> 100],
    [low |-> 90, high |-> 95, close |-> 92] }

ScenarioFrames ==
  { << MarketBar(TicksPerMinute, b[1]), MarketBar(2 * TicksPerMinute, b[2]),
       MarketBar(3 * TicksPerMinute, b[3]), MarketBar(4 * TicksPerMinute, b[4]),
       MarketBar(5 * TicksPerMinute, b[5]) >> :
      b \in QuietBars \X QuietBars \X WideBars \X FreeBars \X FreeBars }

ScenarioInit ==
  /\ market_data \in ScenarioFrames
  /\ strategy_out = <<StrategySignal(1, TicksPerMinute, ScenarioSignal)>>
  /\ slippage_bps = 0
  /\ initial_equity \in {e * Scale : e \in EquityChoices}
  /\ columns = AllColumns
  /\ strategy_reads = {"close"}
  /\ horizon = 0
  /\ previous = None
  /\ Fresh

ScenarioSpec == ScenarioInit /\ [][Next]_vars

\* ------------------------------------------------ frames lacking a column
\* Bar frames with or without the indicator columns and with one of close,
\* high and low left out, run with strategies that index close only
\* (TPB_VWAP), close, high and low (ORB15 among them) or none of the three.
ColumnChoices ==
  { (AllColumns \ gone) \ raw :
      gone \in {{}, {"close"}, {"high"}, {"low"}}, raw \in {{}, {"ema200"}} }

StrategyReadChoices == {{}, {"close"}, {"close", "high", "low"}}

ChronologicalFrames ==
  { f \in MarketFrames \ {<<>>} :
      \A i, j \in DOMAIN f : i < j => f[i].timestamp < f[j].timestamp }

SingleSignalLists ==
  { <<StrategySignal(1, t, k)>> : t \in SignalTimes, k \in SignalKinds }

ValidateInit ==
  /\ market_data \in ChronologicalFrames
  /\ strategy_out \in SingleSignalLists
  /\ slippage_bps = 0
  /\ initial_equity \in {e * Scale : e \in EquityChoices}
  /\ columns \in ColumnChoices
  /\ strategy_reads \in StrategyReadChoices
  /\ horizon = 0
  /\ previous = None
  /\ Fresh

ValidateSpec == ValidateInit /\ [][Next]_vars

\* --------------------------------------------------- two runs in a row
\* A second call of run on the same instance, with the bars and the
\* strategies' signals in any order, after the first call has returned.
PermutationsOf(seq) ==
  { [i \in 1..Len(seq) |-> seq[p[i]]] : p \in IndexPermutations(Len(seq)) }

RerunFrames ==
  { <<MarketBar(t[1], sh[1]), MarketBar(t[2], sh[2])>> :
      t \in Times \X Times, sh \in BarShapes \X BarShapes }

RerunSignalLists ==
  { <<StrategySignal(1, t[1], k[1]), StrategySignal(2, t[2], k[2])>> :
      t \in SignalTimes \X SignalTimes, k \in SignalKinds \X SignalKinds }

RerunInit ==
  /\ market_data \in RerunFrames
  /\ strategy_out \in RerunSignalLists
  /\ slippage_bps = DefaultSlippageBps
  /\ initial_equity \in {e * Scale : e \in EquityChoices}
  /\ columns = AllColumns
  /\ strategy_reads = {"close"}
  /\ horizon = 0
  /\ previous = None
  /\ Fresh

\* The report of line 90 is kept by the caller, who calls run again.
RunAgain ==
  /\ pc = "done"
  /\ previous = None
  /\ previous' = [market_data |-> market_data, strategy_out |-> strategy_out,
                  df |-> df, trades |-> trades, equity_curve |-> equity_curve,
                  metrics |-> metrics]
  /\ market_data' \in PermutationsOf(market_data)
  /\ strategy_out' \in PermutationsOf(strategy_out)
  /\ pc' = "start"
  /\ df' = <<>>
  /\ signals' = <<>>
  /\ bar_idx' = 0
  /\ signal_idx' = 0
  /\ triggered_signals' = <<>>
  /\ open_position' = None
  /\ trades' = <<>>
  /\ equity_curve' = <<>>
  /\ metrics' = None
  /\ entry_bar' = 0
  /\ entries' = <<>>
  /\ pulled' = <<>>
  /\ trace' = <<>>
  /\ raised' = "none"
  /\ UNCHANGED <<slippage_bps, initial_equity, columns, strategy_reads, horizon>>

RerunNext == Run \/ SimulateBar \/ EquityCurveStep \/ MetricsStep \/ RunAgain

RerunSpec == RerunInit /\ [][RerunNext]_vars

\* ------------------------------------------------ the vectorized backtest
\* VectorizedBacktester.run on a labelled frame: label is +1, -1, 0 or NaN,
\* future_return a half or NaN, sma20 at or one tick off the close; the
\* timestamp of a row is its position in the frame it came in.
MaxRows == 3
HorizonChoices == {1, 2}

LabelChoices == {Rat(1, 1), Rat(-1, 1), Zero, NaN}
FutureReturnChoices == {Rat(1, 2), NaN}
Sma20Choices == {1, 2}

LabelRow(i, shape) ==
  [timestamp |-> i, close |-> 2, sma20 |-> shape.sma20, label |-> shape.label,
   future_return |-> shape.future_return]

LabelFrames ==
  { [i \in DOMAIN f |-> LabelRow(i, f[i])] :
      f \in SeqsUpTo([label : LabelChoices, future_return : FutureReturnChoices,
                      sma20 : Sma20Choices], MaxRows) }

VectorInit ==
  /\ market_data \in LabelFrames
  /\ horizon \in HorizonChoices
  /\ strategy_out = <<>>
  /\ slippage_bps = DefaultSlippageBps
  /\ initial_equity \in {e * Scale : e \in EquityChoices}
  /\ columns = AllColumns
  /\ strategy_reads = {}
  /\ previous = None
  /\ Fresh

\* Line 277: features.dropna(subset=["future_return", "label"]).
RECURSIVE DropNa(_)
DropNa(frame) ==
  IF frame = <<>> THEN <<>>
  ELSE IF Head(frame).label = NaN \/ Head(frame).future_return = NaN
       THEN DropNa(Tail(frame))
       ELSE <<Head(frame)>> \o DropNa(Tail(frame))

\* Line 288: int(row["label"]), truncation towards zero.
IntOf(v) == IF v.n >= 0 THEN v.n \div v.d ELSE -((-v.n) \div v.d)

\* Variant: the exit row is the next row, whatever the horizon.
ExitIndexNextRow(idx, h, len) == Min(idx + 1, len)

\* Line 295: exit_index = min(idx + horizon, len(features) - 1), counted
\* from 1.
ExitIndex(idx, h, len) == Min(idx + h, len)

\* Lines 292-319: the TradeResult of row idx; the 1e-6 floor of the risk is
\* below one price unit and leaves stop_price at the close.
VectorTrade(features, idx, h) ==
  LET row == features[idx]
      side == IF IntOf(row.label) = 1 THEN BUY ELSE SELL
      entry_price == row.close * Scale
      exit_price == (row.close * Scale * (row.future_return.d + row.future_return.n))
                      \div row.future_return.d
      pnl == IF side = BUY THEN exit_price - entry_price ELSE entry_price - exit_price
      risk == Abs(row.close - row.sma20) * Scale
  IN  [entry_time |-> features[idx].timestamp,
       exit_time |-> features[ExitIndex(idx, h, Len(features))].timestamp,
       entry_price |-> entry_price,
       exit_price |-> exit_price,
       side |-> side,
       stop_price |-> IF side = BUY THEN entry_price - risk ELSE entry_price + risk,
       target_price |-> exit_price,
       pnl |-> pnl,
       r_multiple |-> IF risk = 0
                      THEN Rat(pnl * (RiskFloorInverse \div Scale), 1)
                      ELSE Rat(pnl, risk),
       bars_held |-> h,
       exit_reason |-> "vector",
       strategy |-> "VECTOR_LABEL"]

\* Lines 277-285: the retained rows, re-indexed, and an empty ledger.
VectorPrepare ==
  /\ pc = "start"
  /\ df' = DropNa(market_data)
  /\ pc' = IF df' = <<>> THEN "simulated" ELSE "loop"
  /\ bar_idx' = 0
  /\ trades' = <<>>
  /\ UNCHANGED <<call, signals, signal_idx, triggered_signals, open_position,
                 equity_curve, metrics, entry_bar, entries, pulled, trace, raised>>

\* Lines 287-320: one iteration of the loop over the retained rows.
VectorRow ==
  /\ pc = "loop"
  /\ bar_idx < Len(df)
  /\ LET k == bar_idx + 1
     IN  /\ bar_idx' = k
         /\ IF IntOf(df[k].label) = 0
            THEN UNCHANGED <<trades, trace>>
            ELSE /\ trades' = AppendTrade(trades, VectorTrade(df, k, horizon))
                 /\ trace' = Append(trace, [sig |-> k, entry_bar |-> k,
                                            exit_bar |-> ExitIndex(k, horizon, Len(df))])
         /\ pc' = IF k = Len(df) THEN "simulated" ELSE "loop"
  /\ UNCHANGED <<call, df, signals, signal_idx, triggered_signals, open_position,
                 equity_curve, metrics, entry_bar, entries, pulled, raised>>

VectorNext == VectorPrepare \/ VectorRow \/ EquityCurveStep \/ MetricsStep

VectorSpec == VectorInit /\ [][VectorNext]_vars

\* ------------------------------------------------- three bars, a queue
\* Three bars at consecutive timestamps and two or three signals due on any
\* of them, so that a position can stay open over a bar and a signal can be
\* pulled while another position is open.
QueueFrames ==
  { <<MarketBar(1, sh[1]), MarketBar(2, sh[2]), MarketBar(3, sh[3])>> :
      sh \in BarShapes \X BarShapes \X BarShapes }

QueueSignalLists ==
  { <<StrategySignal(1, t[1], k[1]), StrategySignal(2, t[2], k[2])>> :
      t \in {1, 2, 3} \X {1, 2, 3}, k \in SignalKinds \X SignalKinds }
  \cup
  { <<StrategySignal(1, t[1], k[1]), StrategySignal(2, t[2], k[2]),
      StrategySignal(3, t[3], k[3])>> :
      t \in {1, 2, 3} \X {1, 2, 3} \X {1, 2, 3},
      k \in SignalKinds \X SignalKinds \X SignalKinds }

QueueInit ==
  /\ market_data \in QueueFrames
  /\ strategy_out \in QueueSignalLists
  /\ slippage_bps = DefaultSlippageBps
  /\ initial_equity \in {e * Scale : e \in EquityChoices}
  /\ columns = AllColumns
  /\ strategy_reads = {"close"}
  /\ horizon = 0
  /\ previous = None
  /\ Fresh

QueueSpec == QueueInit /\ [][Next]_vars

\* ------------------------------------------- the metrics engine on ledgers
\* _build_equity_curve and _compute_metrics on the ledgers a caller such as
\* VectorizedBacktester.run hands them: trade i of n has an R-multiple of
\* offset + (stride * i mod 43), distinct within a ledger, a risk of one tick
\* and a holding time of one tick.
LedgerStrides == {1, 3, 7}
LedgerOffsets == {-4, 0}

LedgerTrade(i, stride, offset) ==
  LET v == offset + ((stride * i) % 43)
  IN  [entry_time |-> 2 * i - 1,
       exit_time |-> 2 * i,
       entry_price |-> 10 * Scale,
       exit_price |-> (10 + v) * Scale,
       side |-> BUY,
       stop_price |-> 9 * Scale,
       target_price |-> (10 + v) * Scale,
       pnl |-> v * Scale,
       r_multiple |-> Rat(v, 1),
       bars_held |-> 1,
       exit_reason |-> "vector",
       strategy |-> "VECTOR_LABEL"]

Ledgers ==
  { [i \in 1..n |-> LedgerTrade(i, a, b)] :
      n \in 1..MaxTrades, a \in LedgerStrides, b \in LedgerOffsets }

MetricsInit ==
  /\ trades \in Ledgers
  /\ initial_equity \in {e * Scale : e \in EquityChoices}
  /\ slippage_bps = DefaultSlippageBps
  /\ pc = "simulated"
  /\ market_data = <<>>
  /\ strategy_out = <<>>
  /\ df = <<>>
  /\ signals = <<>>
  /\ bar_idx = 0
  /\ signal_idx = 0
  /\ triggered_signals = <<>>
  /\ open_position = None
  /\ equity_curve = <<>>
  /\ metrics = None
  /\ entry_bar = 0
  /\ entries = <<>>
  /\ pulled = <<>>
  /\ trace = <<>>
  /\ columns = AllColumns
  /\ strategy_reads = {}
  /\ raised = "none"
  /\ horizon = 0
  /\ previous = None

MetricsNext == EquityCurveStep \/ MetricsStep

MetricsSpec == MetricsInit /\ [][MetricsNext]_vars

\* ------------------------------------------ ledgers with idle time between
\* Ledgers of one to three trades as the simulation appends them: a trade
\* lasts 0, 1 or 2 minutes and holds max(minutes, 1) bars, the next one
\* enters on the exit bar's successor or two minutes later.
TradeDurations == {0, 1, 2}
IdleGaps == {0, 2}

RECURSIVE EntryTimeOf(_, _)
EntryTimeOf(plan, i) ==
  IF i = 1 THEN TicksPerMinute
  ELSE EntryTimeOf(plan, i - 1)
         + (plan[i - 1].duration + 1 + plan[i].gap) * TicksPerMinute

SpacedTrade(plan, i) ==
  LET entry_time == EntryTimeOf(plan, i)
      exit_time == entry_time + plan[i].duration * TicksPerMinute
      v == IF i % 2 = 1 THEN 1 ELSE -1
  IN  [entry_time |-> entry_time,
       exit_time |-> exit_time,
       entry_price |-> 10 * Scale,
       exit_price |-> (10 + v) * Scale,
       side |-> BUY,
       stop_price |-> 9 * Scale,
       target_price |-> 11 * Scale,
       pnl |-> v * Scale,
       r_multiple |-> Rat(v, 1),
       bars_held |-> BarsHeld(entry_time, exit_time),
       exit_reason |-> IF v > 0 THEN "target" ELSE "stop",
       strategy |-> "TPB_VWAP"]

SpacedLedgers ==
  { [i \in DOMAIN plan |-> SpacedTrade(plan, i)] :
      plan \in { q \in SeqsUpTo([duration : TradeDurations, gap : IdleGaps], 3) :
                   q # <<>> } }

ExposureInit ==
  /\ trades \in SpacedLedgers
  /\ initial_equity \in {e * Scale : e \in EquityChoices}
  /\ slippage_bps = 0
  /\ pc = "simulated"
  /\ market_data = <<>>
  /\ strategy_out = <<>>
  /\ df = <<>>
  /\ signals = <<>>
  /\ bar_idx = 0
  /\ signal_idx = 0
  /\ triggered_signals = <<>>
  /\ open_position = None
  /\ equity_curve = <<>>
  /\ metrics = None
  /\ entry_bar = 0
  /\ entries = <<>>
  /\ pulled = <<>>
  /\ trace = <<>>
  /\ columns = AllColumns
  /\ strategy_reads = {}
  /\ raised = "none"
  /\ horizon = 0
  /\ previous = None

ExposureSpec == ExposureInit /\ [][MetricsNext]_vars

\* ------------------------------------------------ the built-in strategies
\* generate_all_signals on an indicator frame of one session of three bars,
\* the first of them in the opening range. Prices are in units of 1e-4, the
\* floor of the stop distances; the indicator values are chosen so that the
\* products with 0.8, 1.2 and 0.5 are whole units.
PullbackToleranceInverse == 200
TakeProfitMultiplier == 2
OpeningMinutes == 15
BandK == 2
StopAtrMultiplier == Rat(4, 5)
StopSigmaMult == Rat(6, 5)
BufferTicks == Rat(1, 2)

Scaled(m, x) == (m.n * x) \div m.d

FeatureRow(i, sh) ==
  [timestamp |-> i, minutes_from_open |-> OpeningMinutes * (i - 1),
   close |-> sh.close, high |-> sh.close + 2, low |-> sh.close - 2,
   ema200 |-> 1000, ema200_slope |-> 0, sma20 |-> sh.sma20, vwap |-> 1000,
   atr14 |-> 5, rsi7 |-> sh.rsi7, sigma |-> 5, spread |-> 2]

FeatureFrames ==
  { <<FeatureRow(1, sh[1]), FeatureRow(2, sh[2]), FeatureRow(3, sh[3])>> :
      sh \in [close : {985, 1000, 1015}, sma20 : {997, 1000}, rsi7 : {30, 50, 70}]
             \X [close : {985, 1000, 1015}, sma20 : {997, 1000}, rsi7 : {30, 50, 70}]
             \X [close : {985, 1000, 1015}, sma20 : {997, 1000}, rsi7 : {30, 50, 70}] }

\* _make_signal, strategies.py lines 38-61.
MakeSignal(name, row, side, entry, stop, target) ==
  [timestamp |-> row.timestamp, side |-> side, entry |-> entry, stop |-> stop,
   target |-> target, strategy |-> name]

\* TPBVWAPStrategy.generate_signals, lines 85-146, for one row.
TPBSignal(prev, row) ==
  LET price == row.close
      dist_sma == Abs(price - row.sma20)
      dist_vwap == Abs(price - row.vwap)
      min_dist == Min(dist_sma, dist_vwap)
      side == IF price >= row.ema200 /\ row.ema200_slope >= 0
                   /\ prev.rsi7 <= 35 /\ row.rsi7 > 35
              THEN BUY
              ELSE IF price <= row.ema200 /\ row.ema200_slope <= 0
                        /\ prev.rsi7 >= 65 /\ row.rsi7 < 65
                   THEN SELL ELSE "none"
      stop_distance == Max(1, Min(Scaled(StopAtrMultiplier, row.atr14), dist_sma))
  IN  IF min_dist * PullbackToleranceInverse > price \/ side = "none" THEN None
      ELSE IF side = BUY
           THEN MakeSignal("TPB_VWAP", row, BUY, price, price - stop_distance,
                           price + stop_distance * TakeProfitMultiplier)
           ELSE MakeSignal("TPB_VWAP", row, SELL, price, price + stop_distance,
                           price - stop_distance * TakeProfitMultiplier)

RECURSIVE MaxHigh(_)
MaxHigh(rows) ==
  IF Len(rows) = 1 THEN rows[1].high ELSE Max(Head(rows).high, MaxHigh(Tail(rows)))

RECURSIVE MinLow(_)
MinLow(rows) ==
  IF Len(rows) = 1 THEN rows[1].low ELSE Min(Head(rows).low, MinLow(Tail(rows)))

InOpening(row) == row.minutes_from_open < OpeningMinutes

\* ORB15Strategy.generate_signals, lines 186-236, for one row after the
\* opening range of its session.
ORBSignal(opening, session, row) ==
  LET or_high == MaxHigh(opening)
      or_low == MinLow(opening)
      or_range == Max(or_high - or_low, 1)
      buffer_price == Max(Scaled(BufferTicks, session[1].spread), 1)
      price == row.close
      stop_distance == Max(1, Min(or_range \div 2, row.atr14))
  IN  IF price > or_high + buffer_price
      THEN MakeSignal("ORB_15", row, BUY, price, price - stop_distance, price + or_range)
      ELSE IF price < or_low - buffer_price
           THEN MakeSignal("ORB_15", row, SELL, price, price + stop_distance,
                           price - or_range)
           ELSE None

\* VRBStrategy.generate_signals, lines 256-304, for one row.
VRBSignal(prev, row) ==
  LET price == row.close
      upper == row.vwap + BandK * row.sigma
      lower == row.vwap - BandK * row.sigma
      side == IF prev.close > upper /\ price <= upper THEN SELL
              ELSE IF prev.close < lower /\ price >= lower THEN BUY ELSE "none"
  IN  IF row.sigma <= 0 \/ side = "none" THEN None
      ELSE IF side = BUY
           THEN MakeSignal("VRB", row, BUY, price,
                           price + Scaled(StopSigmaMult, row.sigma), row.vwap)
           ELSE MakeSignal("VRB", row, SELL, price,
                           price - Scaled(StopSigmaMult, row.sigma), row.vwap)

SignalAt(name, features, idx) ==
  IF name = "TPB_VWAP" THEN TPBSignal(features[idx - 1], features[idx])
  ELSE IF name = "VRB" THEN VRBSignal(features[idx - 1], features[idx])
  ELSE ORBSignal(SelectSeq(features, InOpening), features, features[idx])

\* The loop of a strategy over the rows from idx on.
RECURSIVE SignalsFrom(_, _, _)
SignalsFrom(name, features, idx) ==
  IF idx > Len(features) THEN <<>>
  ELSE LET made == SignalAt(name, features, idx)
       IN  (IF made = None THEN <<>> ELSE <<made>>)
             \o SignalsFrom(name, features, idx + 1)

\* The first row a strategy looks at: the second one, or for ORB_15 the one
\* after the opening range (no row when the opening range is empty).
FirstRow(name, features) ==
  IF name # "ORB_15" THEN 2
  ELSE IF SelectSeq(features, InOpening) = <<>> THEN Len(features) + 1
       ELSE Len(SelectSeq(features, InOpening)) + 1

\* signals.extend(strat.generate_signals(df, instrument)), line 318.
Extend(out, made) ==
  out \o [i \in 1..Len(made) |->
            [id |-> Len(out) + i, timestamp |-> made[i].timestamp,
             side |-> made[i].side, entry |-> made[i].entry, stop |-> made[i].stop,
             target |-> made[i].target, strategy |-> made[i].strategy]]

StrategyInit ==
  /\ market_data \in FeatureFrames
  /\ df = market_data
  /\ strategy_out = <<>>
  /\ pc = "TPB_VWAP"
  /\ slippage_bps = DefaultSlippageBps
  /\ initial_equity \in {e * Scale : e \in EquityChoices}
  /\ signals = <<>>
  /\ bar_idx = 0
  /\ signal_idx = 0
  /\ triggered_signals = <<>>
  /\ open_position = None
  /\ trades = <<>>
  /\ equity_curve = <<>>
  /\ metrics = None
  /\ entry_bar = 0
  /\ entries = <<>>
  /\ pulled = <<>>
  /\ trace = <<>>
  /\ columns = AllColumns
  /\ strategy_reads = {"close", "high", "low"}
  /\ raised = "none"
  /\ horizon = 0
  /\ previous = None

\* generate_all_signals, lines 315-319: the default strategies in their
\* order, one call of generate_signals each.
Generate ==
  /\ pc \in {"TPB_VWAP", "ORB_15", "VRB"}
  /\ strategy_out' = Extend(strategy_out, SignalsFrom(pc, df, FirstRow(pc, df)))
  /\ pc' = IF pc = "TPB_VWAP" THEN "ORB_15" ELSE IF pc = "ORB_15" THEN "VRB" ELSE "sort"
  /\ UNCHANGED <<market_data, slippage_bps, initial_equity, columns, strategy_reads,
                 horizon, previous, df, signals, bar_idx, signal_idx,
                 triggered_signals, open_position, trades, equity_curve, metrics,
                 entry_bar, entries, pulled, trace, raised>>

\* generate_all_signals, line 319: signals.sort(key=timestamp).
SortGenerated ==
  /\ pc = "sort"
  /\ signals' = GenerateAllSignals(strategy_out)
  /\ pc' = "generated"
  /\ UNCHANGED <<call, df, bar_idx, signal_idx, triggered_signals, open_position,
                 trades, equity_curve, metrics, entry_bar, entries, pulled, trace,
                 raised>>

StrategyNext == Generate \/ SortGenerated

StrategySpec == StrategyInit /\ [][StrategyNext]_vars

\* ================================================================ claims
Returned == pc \in {"simulated", "curve", "done"}

\* The signal object with identity id.
SignalById(id) == strategy_out[id]

StopBreached(sig, row) ==
  IF sig.side = BUY THEN row.low <= sig.stop ELSE row.high >= sig.stop

TargetBreached(sig, row) ==
  IF sig.side = BUY THEN row.high >= sig.target ELSE row.low <= sig.target

StrictlyIncreasingBars ==
  \A i, j \in DOMAIN df : i < j => df[i].timestamp < df[j].timestamp

\* The trade records and the bar indices recorded with them agree.
TraceMatchesLedger ==
  /\ Len(trace) = Len(trades)
  /\ \A i \in DOMAIN trace :
       /\ trace[i].entry_bar \in DOMAIN df
       /\ trace[i].exit_bar \in DOMAIN df
       /\ trades[i].entry_time = df[trace[i].entry_bar].timestamp
       /\ trades[i].exit_time = df[trace[i].exit_bar].timestamp

\* C1: at most one position is open at any bar: each trade's entry bar comes
\* strictly after the exit bar of the trade before it (and so does the entry
\* bar of the position still open), so with strictly increasing bar
\* timestamps no two trades' [entry_time, exit_time] intervals overlap.
C1_OnePositionAtATime ==
  /\ TraceMatchesLedger
  /\ \A i \in 1..(Len(trace) - 1) : trace[i + 1].entry_bar > trace[i].exit_bar
  /\ (open_position # None /\ trace # <<>>) => entry_bar > trace[Len(trace)].exit_bar
  /\ StrictlyIncreasingBars =>
       \A i \in 1..(Len(trades) - 1) : trades[i].exit_time < trades[i + 1].entry_time

C1_Witness ==
  /\ Len(trades) >= 2
  /\ StrictlyIncreasingBars
  /\ trades[1].exit_time < trades[2].entry_time

\* C2: a bar that breaches both the stop and the target of the open position
\* closes the trade on that bar with reason stop at the slippage-adjusted
\* stop price, never with reason target.
C2_StopBeforeTarget ==
  /\ \A i \in DOMAIN trace :
       LET sig == SignalById(trace[i].sig)
           su == SlipUnits(slippage_bps)
       IN  \A k \in trace[i].entry_bar .. trace[i].exit_bar :
             (StopBreached(sig, df[k]) /\ TargetBreached(sig, df[k])) =>
               /\ k = trace[i].exit_bar
               /\ trades[i].exit_reason = "stop"
               /\ trades[i].exit_price =
                    IF sig.side = BUY THEN sig.stop * (Scale - su)
                                       ELSE sig.stop * (Scale + su)
  /\ open_position # None =>
       \A k \in entry_bar .. bar_idx :
         ~(StopBreached(open_position.signal, df[k])
           /\ TargetBreached(open_position.signal, df[k]))

C2_Witness ==
  \E i \in DOMAIN trace :
    /\ StopBreached(SignalById(trace[i].sig), df[trace[i].exit_bar])
    /\ TargetBreached(SignalById(trace[i].sig), df[trace[i].exit_bar])
    /\ trades[i].exit_reason = "stop"
    /\ slippage_bps > 0

\* C3: a position still open on the last bar with neither stop nor target
\* breached closes there with reason expiry at the slippage-adjusted close;
\* when _simulate_trades returns no position is open and every entry has
\* produced exactly one trade.
C3_ForcedExpiry ==
  Returned =>
    /\ open_position = None
    /\ Len(entries) = Len(trades)
    /\ \A i \in DOMAIN entries :
         entries[i] = <<trace[i].sig, trace[i].entry_bar>>
    /\ \A i \in DOMAIN trace :
         LET sig == SignalById(trace[i].sig)
             row == df[trace[i].exit_bar]
             su == SlipUnits(slippage_bps)
         IN  (~StopBreached(sig, row) /\ ~TargetBreached(sig, row)) =>
               /\ trace[i].exit_bar = Len(df)
               /\ trades[i].exit_reason = "expiry"
               /\ trades[i].exit_price =
                    IF sig.side = BUY THEN row.close * (Scale - su)
                                       ELSE row.close * (Scale + su)

C3_Witness ==
  /\ Returned
  /\ trades # <<>>
  /\ trades[Len(trades)].exit_reason = "expiry"
  /\ trace[Len(trace)].entry_bar < Len(df)
  /\ slippage_bps > 0

\* The ids of the signals pulled on bar k.
PulledOn(k) == { pulled[i][1] : i \in { j \in DOMAIN pulled : pulled[j][2] = k } }

\* id a comes before id b in a stable sort by ascending timestamp.
StableBefore(a, b) ==
  \/ SignalById(a).timestamp < SignalById(b).timestamp
  \/ SignalById(a).timestamp = SignalById(b).timestamp /\ a < b

\* C4: a position is opened from the first signal of the batch pulled on its
\* entry bar, in the order of a stable sort of the input signals by ascending
\* timestamp, whatever the signals' prices.
C4_EarliestQueuedSignal ==
  \A i \in DOMAIN entries :
    LET id == entries[i][1]
        k == entries[i][2]
    IN  /\ id \in PulledOn(k)
        /\ \A other \in PulledOn(k) \ {id} : StableBefore(id, other)

C4_Witness ==
  \E i \in DOMAIN entries :
    \E other \in PulledOn(entries[i][2]) \ {entries[i][1]} :
      /\ SignalById(other).timestamp = SignalById(entries[i][1]).timestamp
      /\ SignalById(other).side # SignalById(entries[i][1]).side

\* The first bar whose timestamp is >= t, or 0 when there is none.
FirstBarAtOrAfter(t) ==
  IF \E k \in DOMAIN df : df[k].timestamp >= t
  THEN CHOOSE k \in DOMAIN df :
         /\ df[k].timestamp >= t
         /\ \A j \in DOMAIN df : df[j].timestamp >= t => k <= j
  ELSE 0

\* C5: the cursor only advances: each signal is pulled at most once, exactly
\* on the first bar whose timestamp is >= its own; a signal later than the
\* last bar is never pulled; with no signals every pull is empty.
C5_MonotonicCursor ==
  /\ signal_idx = Len(pulled)
  /\ \A i, j \in DOMAIN pulled : i < j =>
       /\ pulled[i][1] # pulled[j][1]
       /\ pulled[i][2] <= pulled[j][2]
  /\ \A i \in DOMAIN pulled :
       pulled[i][2] = FirstBarAtOrAfter(SignalById(pulled[i][1]).timestamp)
  /\ (pc \in {"loop", "simulated", "curve", "done"} /\ market_data # <<>>) =>
       \A id \in DOMAIN strategy_out :
         LET first == FirstBarAtOrAfter(SignalById(id).timestamp)
         IN  (\E i \in DOMAIN pulled : pulled[i][1] = id)
               <=> (first # 0 /\ first <= bar_idx)
  /\ strategy_out = <<>> => (pulled = <<>> /\ triggered_signals = <<>>)

C5_Witness ==
  /\ pc = "done"
  /\ Len(strategy_out) = 2
  /\ Len(pulled) = 1
  /\ pulled[1][2] = 2
  /\ \E id \in DOMAIN strategy_out : SignalById(id).timestamp > df[Len(df)].timestamp

\* C6: no trade enters before its signal's timestamp or exits before it
\* enters; a trade entered and exited on the same bar has equal entry and
\* exit time and bars_held = 1.
C6_TradeTimesOrdered ==
  \A i \in DOMAIN trace :
    /\ trades[i].entry_time >= SignalById(trace[i].sig).timestamp
    /\ trades[i].exit_time >= trades[i].entry_time
    /\ trace[i].entry_bar = trace[i].exit_bar =>
         /\ trades[i].entry_time = trades[i].exit_time
         /\ trades[i].bars_held = 1

C6_Witness ==
  /\ Len(trades) = 2
  /\ trace[1].entry_bar = trace[1].exit_bar
  /\ trades[2].entry_time > SignalById(trace[2].sig).timestamp
  /\ trades[2].exit_time = trades[2].entry_time

\* C7: the ledger is sorted by exit_time non-decreasingly, and the equity
\* curve carries the same timestamps in the same order.
C7_LedgerSortedByExit ==
  /\ \A i, j \in DOMAIN trades : i < j => trades[i].exit_time <= trades[j].exit_time
  /\ pc \in {"curve", "done"} =>
       /\ Len(equity_curve) = Len(trades)
       /\ \A i \in DOMAIN equity_curve : equity_curve[i].timestamp = trades[i].exit_time
       /\ \A i, j \in DOMAIN equity_curve :
            i < j => equity_curve[i].timestamp <= equity_curve[j].timestamp

C7_Witness ==
  /\ pc = "done"
  /\ Len(equity_curve) = 2
  /\ equity_curve[1].timestamp < equity_curve[2].timestamp
  /\ market_data # df

\* C8: the equity curve has one point per trade, in ledger order; point i
\* carries trade i's exit_time and initial_equity plus the pnl of trades 1..i.
C8_EquityCurveConsistent ==
  pc \in {"curve", "done"} =>
    /\ Len(equity_curve) = Len(trades)
    /\ \A i \in DOMAIN equity_curve :
         /\ equity_curve[i].timestamp = trades[i].exit_time
         /\ equity_curve[i].equity = initial_equity + SumPnl(SubSeq(trades, 1, i))

C8_Witness ==
  /\ pc = "curve"
  /\ Len(equity_curve) >= 3
  /\ equity_curve[3].equity # initial_equity + trades[3].pnl
  /\ equity_curve[3].equity # equity_curve[2].equity

MetricFields ==
  {"cagr", "sharpe", "mar", "max_drawdown", "win_rate", "payoff", "expectancy",
   "exposure", "cvar_95"}

\* C9: an empty signal sequence or an empty bar sequence is no error: the
\* run returns at once with an empty ledger, and the report has an empty
\* equity curve and metrics whose nine fields are all 0.0.
C9_EmptyInputZeroReport ==
  (strategy_out = <<>> \/ market_data = <<>>) =>
    /\ trades = <<>>
    /\ pc \in {"start", "simulated", "curve", "done"}
    /\ equity_curve = <<>>
    /\ pc = "done" =>
         /\ DOMAIN metrics = MetricFields
         /\ \A f \in MetricFields : metrics[f] = [kind |-> "rat", n |-> 0, d |-> 1]

C9_Witness ==
  /\ pc = "done"
  /\ market_data = <<>>
  /\ strategy_out # <<>>
  /\ metrics.cvar_95 = Zero

\* The sum of the k smallest R-multiples of the ledger, taking the minimum
\* of what is left k times.
RECURSIVE SumOfSmallest(_, _)
SumOfSmallest(idx, k) ==
  IF k = 0 \/ idx = {} THEN Zero
  ELSE LET m == CHOOSE i \in idx :
                  \A j \in idx : RatLeq(trades[i].r_multiple, trades[j].r_multiple)
       IN  RatAdd(trades[m].r_multiple, SumOfSmallest(idx \ {m}, k - 1))

MeanOfSmallest(k) ==
  LET t == SumOfSmallest(DOMAIN trades, k) IN Rat(t.n, t.d * k)

\* C10 as stated: cvar_95 is the mean of the max(round(0.05*n), 1) smallest
\* R-multiples.
C10_CvarRounded ==
  (pc = "done" /\ trades # <<>>) =>
    metrics.cvar_95 = MeanOfSmallest(Max(PyRound(Len(trades), 20), 1))

\* C10, amended: cvar_95 is the mean of the max(floor(0.05*n), 1) smallest
\* R-multiples.
C10_CvarTruncated ==
  (pc = "done" /\ trades # <<>>) =>
    metrics.cvar_95 = MeanOfSmallest(Max(Len(trades) \div 20, 1))

C10_Witness ==
  /\ pc = "done"
  /\ Len(trades) = 40
  /\ metrics.cvar_95 = MeanOfSmallest(2)
  /\ metrics.cvar_95 # MeanOfSmallest(1)

\* C11 as stated: the five-bar scenario yields exactly one trade, with
\* exit_reason target, pnl 4.0 and r_multiple 2.0.
C11_ScenarioExitsAtTarget ==
  Returned =>
    /\ Len(trades) = 1
    /\ trades[1].exit_reason = "target"
    /\ trades[1].pnl = 4 * Scale
    /\ trades[1].r_multiple = Rat(2, 1)

\* C11, amended: the third bar's low of 97 breaches the stop of 98, so the
\* five-bar scenario yields exactly one trade, entered on the first bar and
\* closed on the third with exit_reason stop, pnl -2.0 and r_multiple -1.0.
C11_ScenarioExitsAtStop ==
  Returned =>
    /\ Len(trades) = 1
    /\ trace[1].entry_bar = 1
    /\ trace[1].exit_bar = 3
    /\ trades[1].exit_reason = "stop"
    /\ trades[1].pnl = -2 * Scale
    /\ trades[1].r_multiple = Rat(-1, 1)

C11_Witness ==
  /\ pc = "done"
  /\ Len(trades) = 1
  /\ trades[1].entry_time = TicksPerMinute
  /\ trades[1].exit_time = 3 * TicksPerMinute
  /\ df[3].low = 97
  /\ df[3].high = 105

\* C12: the entry price of every trade (and of the open position) is the
\* signal's entry times (1 + slippage_bps/10000) for a BUY and times
\* (1 - slippage_bps/10000) for a SELL, whatever the bar's prices.
C12_EntrySlippage ==
  /\ \A i \in DOMAIN trace :
       LET sig == SignalById(trace[i].sig)
       IN  trades[i].entry_price * BpsDenominator =
             sig.entry * Scale *
               (IF sig.side = BUY THEN BpsDenominator + slippage_bps
                                  ELSE BpsDenominator - slippage_bps)
  /\ open_position # None =>
       open_position.entry_price * BpsDenominator =
         open_position.signal.entry * Scale *
           (IF open_position.signal.side = BUY THEN BpsDenominator + slippage_bps
                                               ELSE BpsDenominator - slippage_bps)

C12_Witness ==
  /\ slippage_bps = DefaultSlippageBps
  /\ Len(trades) = 2
  /\ trades[1].side = BUY
  /\ trades[1].entry_price * 10000 = SignalById(trace[1].sig).entry * Scale * 10005
  /\ trades[2].side = SELL
  /\ trades[2].entry_price * 10000 = SignalById(trace[2].sig).entry * Scale * 9995
  /\ df[trace[1].entry_bar].close # df[trace[2].entry_bar].close

\* C13: every field of the BacktestMetrics of every ledger is finite.
C13_MetricsFinite ==
  pc = "done" => \A f \in MetricFields : IsFinite(metrics[f])

\* C14: every trade has bars_held = max(round(minutes between entry_time and
\* exit_time), 1), the nearest whole number of minutes, and so at least 1,
\* also when entry and exit bar carry the same timestamp.
C14_BarsHeld ==
  \A i \in DOMAIN trades :
    LET ticks == trades[i].exit_time - trades[i].entry_time
        held == trades[i].bars_held
    IN  /\ held >= 1
        /\ held = Max(PyRound(ticks, TicksPerMinute), 1)
        /\ held > 1 => 2 * Abs(ticks - held * TicksPerMinute) <= TicksPerMinute
        /\ held = 1 => 2 * ticks <= 3 * TicksPerMinute

C14_Witness ==
  /\ Len(trades) = 1
  /\ trades[1].exit_time > trades[1].entry_time
  /\ 2 * (trades[1].exit_time - trades[1].entry_time) = 3 * TicksPerMinute
  /\ trades[1].bars_held = 2

\* C19: the exit conditions are evaluated on the entry bar: a position opened
\* on a bar that breaches its stop or its target, or that is the last bar, is
\* closed on that same bar (stop before target before expiry).
C19_ExitOnEntryBar ==
  \A e \in DOMAIN entries :
    LET sig == SignalById(entries[e][1])
        k == entries[e][2]
    IN  (StopBreached(sig, df[k]) \/ TargetBreached(sig, df[k]) \/ k = Len(df)) =>
          \E i \in DOMAIN trace :
            /\ trace[i].sig = entries[e][1]
            /\ trace[i].entry_bar = k
            /\ trace[i].exit_bar = k
            /\ trades[i].entry_time = trades[i].exit_time
            /\ trades[i].exit_reason =
                 IF StopBreached(sig, df[k]) THEN "stop"
                 ELSE IF TargetBreached(sig, df[k]) THEN "target" ELSE "expiry"

C19_Witness ==
  /\ Len(df) = 2
  /\ Len(trace) = 2
  /\ trace[1].entry_bar = 1
  /\ trace[1].exit_bar = 1
  /\ trades[1].exit_reason = "target"
  /\ trace[2].entry_bar = 2
  /\ trades[2].exit_reason = "expiry"

\* C20: once a trade closes on bar k the position is cleared, no second
\* position is opened on bar k, and bar k+1 opens a position if and only if
\* a signal becomes due on it; so entry bars and exit bars are each strictly
\* increasing and there are never more trades than bars processed.
C20_FlatAfterExit ==
  /\ (trace # <<>> /\ trace[Len(trace)].exit_bar = bar_idx) => open_position = None
  /\ \A i, j \in DOMAIN entries : i < j => entries[i][2] < entries[j][2]
  /\ \A i, j \in DOMAIN trace : i < j => trace[i].exit_bar < trace[j].exit_bar
  /\ Len(trades) <= bar_idx
  /\ bar_idx <= Len(df)
  /\ \A i \in DOMAIN trace :
       LET next == trace[i].exit_bar + 1
       IN  next <= bar_idx =>
             ((\E e \in DOMAIN entries : entries[e][2] = next) <=> PulledOn(next) # {})

C20_Witness ==
  /\ Len(trace) = 2
  /\ trace[1].exit_bar = 1
  /\ trace[2].entry_bar = 2
  /\ PulledOn(2) # {}
  /\ Cardinality(PulledOn(1)) = 1

\* C16: a run on a bar frame that lacks close, high or low fails with a
\* configuration error before the first bar is simulated: no bar is
\* processed and no trade is appended, with or without the indicator columns.
C16_FailsFast ==
  (pc # "start" /\ ~({"close", "high", "low"} \subseteq columns)) =>
    /\ pc = "error"
    /\ raised = "ValueError"
    /\ bar_idx = 0
    /\ trades = <<>>

DistinctTimestamps(seq) ==
  \A i, j \in DOMAIN seq : i # j => seq[i].timestamp # seq[j].timestamp

\* C15: the inputs are sorted again inside the run: bars are simulated in
\* ascending timestamp order, and for bars of distinct timestamps and
\* signals of distinct timestamps a run on any permutation of the bars and
\* of the signals returns the ledger of the run before it.
C15_DefensiveResort ==
  /\ pc \in {"loop", "simulated", "curve", "done"} =>
       \A i, j \in DOMAIN df : i < j => df[i].timestamp <= df[j].timestamp
  /\ (previous # None /\ Returned
        /\ DistinctTimestamps(market_data) /\ DistinctTimestamps(strategy_out)) =>
       /\ df = previous.df
       /\ trades = previous.trades

C15_Witness ==
  /\ previous # None
  /\ pc = "done"
  /\ DistinctTimestamps(market_data)
  /\ DistinctTimestamps(strategy_out)
  /\ market_data # previous.market_data
  /\ strategy_out # previous.strategy_out
  /\ market_data[1].timestamp > market_data[2].timestamp
  /\ Len(trades) = 2
  /\ trades = previous.trades

\* A second run on the same instance and the same inputs has returned the
\* ledger, the equity curve and the metrics of the first.
RepeatedRunAgrees ==
  (previous # None /\ pc = "done"
     /\ market_data = previous.market_data /\ strategy_out = previous.strategy_out) =>
    /\ trades = previous.trades
    /\ equity_curve = previous.equity_curve
    /\ metrics = previous.metrics

LabelledRows(n) == { i \in 1..n : IntOf(df[i].label) # 0 }

\* C18: the vectorized run emits one trade for each retained row with a
\* non-zero label, in row order, and none for a row labelled 0: BUY for +1
\* and SELL for -1, entered at the row's timestamp, exited at the timestamp
\* of row min(i+H, last), with bars_held = H and exit_reason vector; the
\* ledger is as long as the number of retained non-zero labels.
C18_VectorLedger ==
  pc \in {"loop", "simulated", "curve", "done"} =>
    /\ Len(trades) = Cardinality(LabelledRows(bar_idx))
    /\ Len(trace) = Len(trades)
    /\ \A i \in LabelledRows(bar_idx) : \E n \in DOMAIN trace : trace[n].sig = i
    /\ \A n, m \in DOMAIN trace : n < m => trace[n].sig < trace[m].sig
    /\ \A n \in DOMAIN trace :
         LET i == trace[n].sig
             last == Len(df)
         IN  /\ i \in LabelledRows(bar_idx)
             /\ df[i].label = Rat(1, 1) => trades[n].side = BUY
             /\ df[i].label = Rat(-1, 1) => trades[n].side = SELL
             /\ trades[n].entry_time = df[i].timestamp
             /\ trades[n].exit_time =
                  df[IF i + horizon <= last THEN i + horizon ELSE last].timestamp
             /\ trades[n].bars_held = horizon
             /\ trades[n].exit_reason = "vector"
    /\ Returned => bar_idx = Len(df)

C18_Witness ==
  /\ pc = "done"
  /\ Len(market_data) = 3
  /\ Len(df) = 2
  /\ horizon = 1
  /\ Len(trades) = 2
  /\ trades[1].side = BUY
  /\ trades[2].side = SELL
  /\ trades[1].exit_time = trades[2].entry_time
  /\ trades[2].exit_time = trades[2].entry_time
  /\ trades[2].entry_time = 3

NoLevelMet(sig, row) == ~StopBreached(sig, row) /\ ~TargetBreached(sig, row)

\* C21: a trade closes on the first bar from its entry bar on that breaches
\* its stop or its target or is the last bar: no bar from the entry bar up to
\* the bar before the exit bar meets the stop or the target condition, a
\* target trade's exit bar meets the target and not the stop condition, an
\* expiry trade's exit bar meets neither and is the last bar; a position
\* still open has seen no bar that meets either condition.
C21_FirstBreachingBar ==
  /\ \A i \in DOMAIN trace :
       LET sig == SignalById(trace[i].sig)
           exit_row == df[trace[i].exit_bar]
       IN  /\ trace[i].entry_bar <= trace[i].exit_bar
           /\ \A k \in trace[i].entry_bar .. (trace[i].exit_bar - 1) :
                NoLevelMet(sig, df[k]) /\ k # Len(df)
           /\ trades[i].exit_reason \in {"stop", "target", "expiry"}
           /\ trades[i].exit_reason = "stop" => StopBreached(sig, exit_row)
           /\ trades[i].exit_reason = "target" =>
                TargetBreached(sig, exit_row) /\ ~StopBreached(sig, exit_row)
           /\ trades[i].exit_reason = "expiry" =>
                NoLevelMet(sig, exit_row) /\ trace[i].exit_bar = Len(df)
  /\ (open_position # None /\ pc # "error") =>
       \A k \in entry_bar .. bar_idx :
         NoLevelMet(open_position.signal, df[k]) /\ k # Len(df)

C21_Witness ==
  /\ pc = "done"
  /\ Len(trace) = 1
  /\ trace[1].entry_bar = 1
  /\ trace[1].exit_bar = 3
  /\ trades[1].exit_reason = "target"
  /\ NoLevelMet(SignalById(trace[1].sig), df[2])

\* C22: a signal opens a position only on the bar on which it becomes due
\* and is pulled; a signal pulled and not entered on that bar, because
\* another signal of the batch came first or because a position was open
\* when the bar started, opens no position on any later bar, and no signal
\* opens more than one trade.
C22_DiscardedForGood ==
  /\ \A i, j \in DOMAIN pulled : i # j => pulled[i][1] # pulled[j][1]
  /\ \A e \in DOMAIN entries :
       /\ \E q \in DOMAIN pulled : pulled[q] = entries[e]
       /\ entries[e][2] = FirstBarAtOrAfter(SignalById(entries[e][1]).timestamp)
  /\ \A q \in DOMAIN pulled :
       (\A e \in DOMAIN entries : entries[e] # pulled[q]) =>
         (\A e \in DOMAIN entries : entries[e][1] # pulled[q][1])
  /\ \A e, f \in DOMAIN entries : e # f => entries[e][1] # entries[f][1]
  /\ \A i, j \in DOMAIN trace : i # j => trace[i].sig # trace[j].sig

C22_Witness ==
  /\ pc = "done"
  /\ Len(df) = 3
  /\ Len(trace) = 1
  /\ trace[1].entry_bar = 1
  /\ trace[1].exit_bar = 2
  /\ PulledOn(1) = {trace[1].sig}
  /\ Cardinality(PulledOn(2)) = 1
  /\ PulledOn(3) = {}
  /\ Len(entries) = 1

\* C23: for a non-empty ledger, exposure is the total of bars_held divided by
\* the larger of the minutes elapsed from the first entry to the last exit
\* and that total; the denominator is not zero and 0 < exposure <= 1.
C23_Exposure ==
  (pc = "done" /\ trades # <<>>) =>
    LET held == SumBarsHeld(trades) * TicksPerMinute
        elapsed == trades[Len(trades)].exit_time - trades[1].entry_time
        denominator == IF elapsed > held THEN elapsed ELSE held
    IN  /\ denominator > 0
        /\ metrics.exposure = Rat(held, denominator)
        /\ RatLess(Zero, metrics.exposure)
        /\ RatLeq(metrics.exposure, Rat(1, 1))

C23_Witness ==
  /\ pc = "done"
  /\ Len(trades) = 3
  /\ trades[1].exit_time = trades[1].entry_time
  /\ SumBarsHeld(trades) = 4
  /\ RatLess(metrics.exposure, Rat(1, 1))

\* C24: every signal of TPB_VWAP, ORB_15 and VRB has its stop on the losing
\* side of its entry: below the entry for a BUY, above it for a SELL.
C24_StopOnLosingSide ==
  \A i \in DOMAIN strategy_out :
    IF strategy_out[i].side = BUY
    THEN strategy_out[i].stop < strategy_out[i].entry
    ELSE strategy_out[i].stop > strategy_out[i].entry

====
